---- MODULE Spec2Model ----
(***************************************************************************)
(* A model of the Egyptian national ID card scanner:                       *)
(*   card_recognition.py  - validate_id_number_region,                     *)
(*                          calculate_egyptian_id_confidence_score,        *)
(*                          find_best_card_contour, scan_id_card           *)
(*   transform.py         - sort_quadrilateral_corners                     *)
(*   id_card_data_extractor.py.py / main.py                                *)
(*                        - the module-level extracted_* fields and        *)
(*                          _safe_extract                                  *)
(* Characters are Unicode code points, strings are sequences of them.      *)
(* Points are <<x, y>> pairs of integers.                                  *)
(***************************************************************************)
EXTENDS Integers, Sequences, FiniteSets

VARIABLES
    \* ---- validate_id_number_region called on its own
    first_request,      \* what image_to_string(lang="ara_number") does
    second_request,     \* what image_to_string(lang="ara+eng", whitelist) does
    val_pc,             \* "idle" | "call" | "returned" | "raised"
    val_result,         \* the returned (is_valid_id_number, extracted_digit_string)
    \* ---- scan_id_card / find_best_card_contour
    image,              \* the input: whether cv2.imread decodes it, and its contours
    card_side_type,     \* the argument of scan_id_card, "unread" until line 400 reads it
    pc,                 \* "idle" | "start" | "loaded" | "loop" | "after_loop" | "selected" | "done" | "failed"
    largest_contours,   \* sorted(detected_contours, key=contourArea, reverse=True)[:5]
    idx,                \* position of the for loop in largest_contours (1-based)
    best_validated_contour, \* 0 for None, else a position in largest_contours
    fallback_quadrilateral, \* 0 for None, else a position in largest_contours
    used_fallback,      \* the branch of lines 336-338 was taken
    normalized,         \* positions handed to extract_and_transform_card by the loop
    ocr_log,            \* <<position, lang>> of every image_to_string request
    final_transform,    \* position handed to apply_perspective_correction at line 390
    raised,             \* the exception that left scan_id_card, "none" if none
    written,            \* the file cv2.imwrite wrote, "none" if none
    \* ---- sort_quadrilateral_corners called on its own, then on its result
    corner_points,      \* the 4 input points, in the order given
    ordered_rectangle,  \* sort_quadrilateral_corners(corner_points)
    reordered,          \* sort_quadrilateral_corners(ordered_rectangle)
    sort_pc,            \* "idle" | "input" | "sorted" | "resorted"
    \* ---- _safe_extract and the module-level fields of the OCR extractor
    modules_available,  \* card_recognition and ocr_extractor were imported
    extracted,          \* the extracted_* globals of id_card_data_extractor.py.py
    invocation,         \* how many times _safe_extract has been called
    fields,             \* what the last call of _safe_extract returned
    exceptions,         \* where an exception occurred during the last call
    \* ---- calculate_egyptian_id_confidence_score called on a string, then on another
    id_number,          \* the argument of the last call
    confidence_score,   \* what the last call returned, a double
    previous_id_number, \* the argument of the call before
    previous_score,     \* what the call before returned
    score_pc,           \* "idle" | "input" | "scored" | "rescored"
    \* ---- the sizes of the images on the way from the warp to the OCR crop
    normalizing_for,    \* "candidate" (extract_and_transform_card) | "final" (scan_id_card)
    warped_shape,       \* shape of the image apply_perspective_correction returns
    standardized_shape, \* shape of the image cv2.resize returns
    id_region_shape,    \* shape of id_number_region, the crop sent to OCR
    size_pc,            \* "idle" | "warped" | "resized" | "cropped" | "published" | "raised"
    \* ---- apply_perspective_correction, up to the size of its output
    quadrilateral_corners, \* the 4 points it is called on
    ordered_corners,    \* sort_quadrilateral_corners(quadrilateral_corners)
    output_size,        \* <<optimal_output_width, optimal_output_height>>
    warp_pc,            \* "idle" | "called" | "ordered" | "measured"
    \* ---- the HTTP handlers of main.py and the files they share
    result_files,       \* results/<sid>/result_<sid>.json by path: its JSON text, or NoFile
    temp_files,         \* temp_front.jpg, temp_back.jpg: the upload whose card they show, 0 if absent
    returned,           \* by session id, the payload the last upload that drew the id returned
    processed,          \* by session id and side, the upload whose scan wrote the temp file for it
    request,            \* the last request handled
    response,           \* the response it got
    \* ---- gender.gen called on a string
    id_str,             \* the argument
    gender,             \* what gen returned
    gen_pc              \* "idle" | "called" | "returned"

valVars == <<first_request, second_request, val_pc, val_result>>
scanVars == <<image, card_side_type, pc, largest_contours, idx, best_validated_contour,
              fallback_quadrilateral, used_fallback, normalized, ocr_log,
              final_transform, raised, written>>
sortVars == <<corner_points, ordered_rectangle, reordered, sort_pc>>
extractVars == <<modules_available, extracted, invocation, fields, exceptions>>
scoreVars == <<id_number, confidence_score, previous_id_number, previous_score, score_pc>>
sizeVars == <<normalizing_for, warped_shape, standardized_shape, id_region_shape, size_pc>>
warpVars == <<quadrilateral_corners, ordered_corners, output_size, warp_pc>>
apiVars == <<result_files, temp_files, returned, processed, request, response>>
genVars == <<id_str, gender, gen_pc>>
vars == <<valVars, scanVars, sortVars, extractVars, scoreVars, sizeVars, warpVars,
          apiVars, genVars>>
\* what the actions of one part leave alone
valRest == <<scanVars, sortVars, extractVars, scoreVars, sizeVars, warpVars, apiVars, genVars>>
scanRest == <<valVars, sortVars, extractVars, scoreVars, sizeVars, warpVars, apiVars, genVars>>
sortRest == <<valVars, scanVars, extractVars, scoreVars, sizeVars, warpVars, apiVars, genVars>>
extractRest == <<valVars, scanVars, sortVars, scoreVars, sizeVars, warpVars, apiVars, genVars>>
scoreRest == <<valVars, scanVars, sortVars, extractVars, sizeVars, warpVars, apiVars, genVars>>
sizeRest == <<valVars, scanVars, sortVars, extractVars, scoreVars, warpVars, apiVars, genVars>>
warpRest == <<valVars, scanVars, sortVars, extractVars, scoreVars, sizeVars, apiVars, genVars>>
\* an upload runs _safe_extract, so it leaves less alone than the other handlers
uploadRest == <<valVars, scanVars, sortVars, scoreVars, sizeVars, warpVars, genVars>>
apiRest == <<valVars, scanVars, sortVars, extractVars, scoreVars, sizeVars, warpVars, genVars>>
genRest == <<valVars, scanVars, sortVars, extractVars, scoreVars, sizeVars, warpVars, apiVars>>

(***************************************************************************)
(* Bounds of the model.                                                    *)
(***************************************************************************)
MaxRepeat == 14         \* an OCR text is a unit of 1..2 characters repeated 0..MaxRepeat times
MaxContours == 3        \* cv2.findContours returns 0..MaxContours contours
MaxArea == 2            \* cv2.contourArea of a contour is in 1..MaxArea
MaxCoord == 2           \* corner coordinates are integers in 0..MaxCoord
MaxCalls == 3           \* _safe_extract is called at most MaxCalls times
MaxIdLength == 9        \* calculate_egyptian_id_confidence_score gets strings of 0..MaxIdLength characters
MaxCrowd == 6           \* a crowded image has 0..MaxCrowd contours
MaxSide == 8            \* the warped image is 0..MaxSide pixels wide and high

(***************************************************************************)
(* Characters.                                                             *)
(***************************************************************************)
AsciiDigits   == 48..57         \* '0'..'9'
ArabicIndic   == 1632..1641     \* U+0660..U+0669
EasternArabic == 1776..1785     \* U+06F0..U+06F9
\* Other characters for which Python's str.isdigit() is True (Numeric_Type
\* Digit or Decimal): SUPERSCRIPT TWO U+00B2 and the Devanagari digits.
OtherUnicodeDigits == {178} \cup (2406..2415)

\* The characters OCR texts are drawn from: '0' '2' '9', Arabic-Indic one,
\* Eastern-Arabic nine, superscript two, Devanagari one, space, 'A'.
Alphabet == {48, 50, 57, 1633, 1785, 178, 2407, 32, 65}

\* str.isdigit() of one character
IsDigit(c) == c \in AsciiDigits \cup ArabicIndic \cup EasternArabic \cup OtherUnicodeDigits

\* str.translate(arabic_to_ascii_translation) of one character
TranslateChar(c) ==
    IF c \in ArabicIndic THEN 48 + (c - 1632)
    ELSE IF c \in EasternArabic THEN 48 + (c - 1776)
    ELSE c

RECURSIVE Translate(_)
Translate(s) ==
    IF s = <<>> THEN <<>> ELSE <<TranslateChar(Head(s))>> \o Translate(Tail(s))

\* "".join(character for character in s if character.isdigit())
RECURSIVE KeepDigits(_)
KeepDigits(s) ==
    IF s = <<>> THEN <<>>
    ELSE IF IsDigit(Head(s)) THEN <<Head(s)>> \o KeepDigits(Tail(s))
    ELSE KeepDigits(Tail(s))

MinIdDigits == 12

(***************************************************************************)
(* The OCR engine.  One request either raises or returns a text.           *)
(***************************************************************************)
Raises == [raised |-> TRUE, text |-> <<>>]
Returns(t) == [raised |-> FALSE, text |-> t]

\* image_to_string is called without a timeout (lines 169 and 172-176), so a
\* request the engine never answers never returns and never raises
Hangs == [answered |-> FALSE]

RECURSIVE Repeat(_, _)
Repeat(u, k) == IF k = 0 THEN <<>> ELSE u \o Repeat(u, k - 1)

Units == {<<a>> : a \in Alphabet} \cup {<<a, b>> : a \in Alphabet, b \in Alphabet}
Texts == {Repeat(u, k) : u \in Units, k \in 0..MaxRepeat}

(***************************************************************************)
(* validate_id_number_region: the requests it issues and what it returns.  *)
(* The second request is issued only when the first one raised; when the   *)
(* second raises too the exception leaves the function.                    *)
(***************************************************************************)
RetriesShortText_OcrRequests(first, second) ==
    IF first.raised \/ Len(first.text) = 11
    THEN <<"ara_number", "ara+eng">> ELSE <<"ara_number">>

OcrRequests(first, second) ==
    IF first.raised THEN <<"ara_number", "ara+eng">> ELSE <<"ara_number">>

GateBroken_validate(first, second) ==
    LET raw == IF first.raised THEN second ELSE first
        digits == KeepDigits(Translate(raw.text))
    IN  [raised |-> raw.raised,
         valid  |-> (~raw.raised) /\ Len(digits) > MinIdDigits,
         digits |-> IF raw.raised THEN <<>> ELSE digits]

validate_id_number_region(first, second) ==
    LET raw == IF first.raised THEN second ELSE first
        extracted_digit_string == KeepDigits(Translate(raw.text))
    IN  [raised |-> raw.raised,
         valid  |-> (~raw.raised) /\ Len(extracted_digit_string) >= MinIdDigits,
         digits |-> IF raw.raised THEN <<>> ELSE extracted_digit_string]

NoResult == [raised |-> FALSE, valid |-> FALSE, digits |-> <<>>]

\* validate_id_number_region never gets past one of its OCR requests
never_returns(first, second) ==
    \/ first = Hangs
    \/ first = Raises /\ second = Hangs

(***************************************************************************)
(* Contours.  A contour is described by what the code can observe of it:   *)
(*   area    cv2.contourArea                                               *)
(*   four    len(cv2.approxPolyDP(...)) == 4                               *)
(*   warps   apply_perspective_correction and cv2.resize succeed on its    *)
(*           corners (they raise on degenerate geometry); the computation  *)
(*           is deterministic, so the loop (line 306) and scan_id_card     *)
(*           (line 390) fare alike on the same contour                     *)
(*   first, second   what the two OCR requests do on its identifier crop   *)
(***************************************************************************)
PassText == Repeat(<<1633, 32>>, 12)    \* twelve Arabic-Indic digits, spaced
FailText == Repeat(<<57>>, 11)          \* eleven ASCII digits

\* pytesseract.image_to_string on the identifier crop of a contour: the
\* contour records which of the engine's behaviours it meets
image_to_string(behaviour) ==
    IF behaviour = "pass_text" THEN Returns(PassText)
    ELSE IF behaviour = "fail_text" THEN Returns(FailText)
    ELSE Raises

Shapes ==
    { [four |-> FALSE, warps |-> FALSE, first |-> "raise", second |-> "raise"],
      [four |-> TRUE,  warps |-> FALSE, first |-> "raise", second |-> "raise"],
      [four |-> TRUE,  warps |-> TRUE,  first |-> "pass_text", second |-> "raise"],
      [four |-> TRUE,  warps |-> TRUE,  first |-> "fail_text", second |-> "raise"],
      [four |-> TRUE,  warps |-> TRUE,  first |-> "raise", second |-> "raise"],
      [four |-> TRUE,  warps |-> TRUE,  first |-> "raise", second |-> "pass_text"],
      [four |-> TRUE,  warps |-> TRUE,  first |-> "raise", second |-> "fail_text"] }

Contours ==
    { [area |-> a, four |-> s.four, warps |-> s.warps, first |-> s.first, second |-> s.second] :
        a \in 1..MaxArea, s \in Shapes }

ContourLists == UNION { [1..n -> Contours] : n \in 0..MaxContours }

Images == { [decodable |-> FALSE, contours |-> <<>>] }
          \cup { [decodable |-> TRUE, contours |-> cs] : cs \in ContourLists }

Sides == {"front", "back", "left"}

ContourSlice == 5

Min(a, b) == IF a <= b THEN a ELSE b

\* sorted(seq, key=cv2.contourArea, reverse=True): a stable sort, so contours
\* of equal area keep their order.
RECURSIVE InsertByArea(_, _)
InsertByArea(c, sorted) ==
    IF sorted = <<>> THEN <<c>>
    ELSE IF Head(sorted).area >= c.area
         THEN <<Head(sorted)>> \o InsertByArea(c, Tail(sorted))
         ELSE <<c>> \o sorted

RECURSIVE SortByAreaDescending(_)
SortByAreaDescending(seq) ==
    IF seq = <<>> THEN <<>>
    ELSE InsertByArea(seq[Len(seq)], SortByAreaDescending(SubSeq(seq, 1, Len(seq) - 1)))

LargestContours(detected_contours) ==
    LET ranked == SortByAreaDescending(detected_contours)
    IN  SubSeq(ranked, 1, Min(ContourSlice, Len(ranked)))

(***************************************************************************)
(* extract_and_transform_card: raises when the warp or the resize does,    *)
(* returns no image for corner points None, else the standardized image.   *)
(***************************************************************************)
NoneContour == [area |-> 0, four |-> FALSE, warps |-> FALSE, first |-> "raise", second |-> "raise"]

extract_and_transform_card(card_corner_points) ==
    IF card_corner_points = NoneContour THEN "no_image"
    ELSE IF ~card_corner_points.warps THEN "raise"
    ELSE "image"

(***************************************************************************)
(* One iteration of the loop of find_best_card_contour on contour c.       *)
(*   "not_quad"         len(simplified_contour) != 4                       *)
(*   "transform_error"  extract_and_transform_card raised       (continue) *)
(*   "no_image"         candidate_card_image is None                       *)
(*   "ocr_error"        validate_id_number_region raised        (continue) *)
(*   "rejected"         is_valid_id_number is False                        *)
(*   "accepted"         is_valid_id_number is True                 (break) *)
(***************************************************************************)
validation_outcome(c) ==
    LET validation == validate_id_number_region(image_to_string(c.first),
                                                image_to_string(c.second))
    IN  IF validation.raised THEN "ocr_error"
        ELSE IF validation.valid THEN "accepted"
        ELSE "rejected"

NoQuadCheck_candidate_outcome(c) ==
    IF extract_and_transform_card(c) = "raise" THEN "transform_error"
    ELSE IF extract_and_transform_card(c) = "no_image" THEN "no_image"
    ELSE validation_outcome(c)

candidate_outcome(c) ==
    IF ~c.four THEN "not_quad"
    ELSE IF extract_and_transform_card(c) = "raise" THEN "transform_error"
    ELSE IF extract_and_transform_card(c) = "no_image" THEN "no_image"
    ELSE validation_outcome(c)

\* lines 299-302: the fallback is taken before the try block, from the first
\* contour with 4 corners, whatever becomes of it afterwards
LastQuad_next_fallback(fallback, c, i) ==
    IF c.four THEN i ELSE fallback

next_fallback(fallback, c, i) ==
    IF c.four /\ fallback = 0 THEN i ELSE fallback

\* lines 326-328: break on acceptance
NeverBreaks_breaks_loop(outcome) == FALSE

breaks_loop(outcome) == outcome = "accepted"

\* the requests one iteration issues: those of validate_id_number_region, when
\* the iteration gets as far as calling it
iteration_requests(outcome, c, i) ==
    IF outcome \in {"ocr_error", "accepted", "rejected"}
    THEN [k \in 1..Len(OcrRequests(image_to_string(c.first), image_to_string(c.second))) |->
             <<i, OcrRequests(image_to_string(c.first), image_to_string(c.second))[k]>>]
    ELSE <<>>

\* lines 336-337
select_contour(best, fallback) ==
    IF best = 0 /\ fallback # 0 THEN fallback ELSE best

(***************************************************************************)
(* scan_id_card, step by step.                                             *)
(***************************************************************************)
ScanIdle ==
    /\ image = [decodable |-> FALSE, contours |-> <<>>]
    /\ card_side_type = "unread"
    /\ pc = "idle"
    /\ largest_contours = <<>>
    /\ idx = 0
    /\ best_validated_contour = 0
    /\ fallback_quadrilateral = 0
    /\ used_fallback = FALSE
    /\ normalized = <<>>
    /\ ocr_log = <<>>
    /\ final_transform = 0
    /\ raised = "none"
    /\ written = "none"

InitScan ==
    /\ image \in Images
    /\ card_side_type = "unread"
    /\ pc = "start"
    /\ largest_contours = <<>>
    /\ idx = 0
    /\ best_validated_contour = 0
    /\ fallback_quadrilateral = 0
    /\ used_fallback = FALSE
    /\ normalized = <<>>
    /\ ocr_log = <<>>
    /\ final_transform = 0
    /\ raised = "none"
    /\ written = "none"

IgnoresFailure_LoadFails ==
    /\ pc = "start"
    /\ ~image.decodable
    /\ pc' = "loaded"
    /\ UNCHANGED scanRest
    /\ UNCHANGED <<image, card_side_type, largest_contours, idx, best_validated_contour,
                   fallback_quadrilateral, used_fallback, normalized, ocr_log,
                   final_transform, raised, written>>

\* load_and_resize_image, lines 44-46: cv2.imread returned None
LoadFails ==
    /\ pc = "start"
    /\ ~image.decodable
    /\ raised' = "ImageLoadError"
    /\ pc' = "failed"
    /\ UNCHANGED scanRest
    /\ UNCHANGED <<image, card_side_type, largest_contours, idx, best_validated_contour,
                   fallback_quadrilateral, used_fallback, normalized, ocr_log,
                   final_transform, written>>

\* load_and_resize_image and preprocess_for_edge_detection, lines 372-378
Load ==
    /\ pc = "start"
    /\ image.decodable
    /\ pc' = "loaded"
    /\ UNCHANGED scanRest
    /\ UNCHANGED <<image, card_side_type, largest_contours, idx, best_validated_contour,
                   fallback_quadrilateral, used_fallback, normalized, ocr_log,
                   final_transform, raised, written>>

\* find_best_card_contour, lines 286-291
FindContours ==
    /\ pc = "loaded"
    /\ largest_contours' = LargestContours(image.contours)
    /\ best_validated_contour' = 0
    /\ fallback_quadrilateral' = 0
    /\ idx' = 1
    /\ pc' = IF LargestContours(image.contours) = <<>> THEN "after_loop" ELSE "loop"
    /\ UNCHANGED scanRest
    /\ UNCHANGED <<image, card_side_type, used_fallback, normalized, ocr_log,
                   final_transform, raised, written>>

\* find_best_card_contour, lines 293-333: one iteration of the for loop
Iterate ==
    /\ pc = "loop"
    /\ idx <= Len(largest_contours)
    /\ LET c == largest_contours[idx]
           outcome == candidate_outcome(c)
       IN  /\ fallback_quadrilateral' = next_fallback(fallback_quadrilateral, c, idx)
           /\ normalized' = IF outcome = "not_quad" THEN normalized
                            ELSE Append(normalized, idx)
           /\ ocr_log' = ocr_log \o iteration_requests(outcome, c, idx)
           /\ best_validated_contour' =
                 IF outcome = "accepted" THEN idx ELSE best_validated_contour
           /\ idx' = idx + 1
           /\ pc' = IF breaks_loop(outcome) \/ idx = Len(largest_contours)
                    THEN "after_loop" ELSE "loop"
    /\ UNCHANGED scanRest
    /\ UNCHANGED <<image, card_side_type, largest_contours, used_fallback,
                   final_transform, raised, written>>

\* find_best_card_contour, lines 336-346, a contour is returned
Select ==
    /\ pc = "after_loop"
    /\ select_contour(best_validated_contour, fallback_quadrilateral) # 0
    /\ used_fallback' = (best_validated_contour = 0)
    /\ best_validated_contour' = select_contour(best_validated_contour, fallback_quadrilateral)
    /\ pc' = "selected"
    /\ UNCHANGED scanRest
    /\ UNCHANGED <<image, card_side_type, largest_contours, idx, fallback_quadrilateral,
                   normalized, ocr_log, final_transform, raised, written>>

\* find_best_card_contour, lines 340-344: RuntimeError, not caught by scan_id_card
SelectFails ==
    /\ pc = "after_loop"
    /\ select_contour(best_validated_contour, fallback_quadrilateral) = 0
    /\ raised' = "NoQuadrilateralFound"
    /\ pc' = "failed"
    /\ UNCHANGED scanRest
    /\ UNCHANGED <<image, card_side_type, largest_contours, idx, best_validated_contour,
                   fallback_quadrilateral, used_fallback, normalized, ocr_log,
                   final_transform, written>>

\* scan_id_card, lines 389-397: the warp or the resize raises
FinalTransformFails ==
    /\ pc = "selected"
    /\ ~largest_contours[best_validated_contour].warps
    /\ final_transform' = best_validated_contour
    /\ raised' = "TransformError"
    /\ pc' = "failed"
    /\ UNCHANGED scanRest
    /\ UNCHANGED <<image, card_side_type, largest_contours, idx, best_validated_contour,
                   fallback_quadrilateral, used_fallback, normalized, ocr_log, written>>

\* scan_id_card, lines 389-410: warp, resize, then the side decides the file
Save ==
    /\ pc = "selected"
    /\ largest_contours[best_validated_contour].warps
    /\ final_transform' = best_validated_contour
    /\ \E side \in Sides :
          /\ card_side_type' = side
          /\ IF side = "front"
             THEN written' = "temp_front.jpg" /\ raised' = raised /\ pc' = "done"
             ELSE IF side = "back"
             THEN written' = "temp_back.jpg" /\ raised' = raised /\ pc' = "done"
             ELSE written' = written /\ raised' = "InvalidSideError" /\ pc' = "failed"
    /\ UNCHANGED scanRest
    /\ UNCHANGED <<image, largest_contours, idx, best_validated_contour,
                   fallback_quadrilateral, used_fallback, normalized, ocr_log>>

\* scan_id_card on an image crowded with contours: the k-th contour that
\* cv2.findContours returns has area k, so the ranking reverses their order;
\* a contour has fewer or more than 4 corners, or 4 corners that do not
\* warp, or 4 corners and an identifier crop that reads well or badly
CrowdedShapes == {s \in Shapes : s.first # "raise" \/ ~s.warps}

CrowdedContourLists ==
    UNION { { [k \in 1..n |-> [area |-> k, four |-> ss[k].four, warps |-> ss[k].warps,
                                first |-> ss[k].first, second |-> ss[k].second]] :
              ss \in [1..n -> CrowdedShapes] } : n \in 0..MaxCrowd }

CrowdedImages ==
    { [decodable |-> FALSE, contours |-> <<>>] }
    \cup { [decodable |-> TRUE, contours |-> cs] : cs \in CrowdedContourLists }

InitCrowdedScan ==
    /\ image \in CrowdedImages
    /\ card_side_type = "unread"
    /\ pc = "start"
    /\ largest_contours = <<>>
    /\ idx = 0
    /\ best_validated_contour = 0
    /\ fallback_quadrilateral = 0
    /\ used_fallback = FALSE
    /\ normalized = <<>>
    /\ ocr_log = <<>>
    /\ final_transform = 0
    /\ raised = "none"
    /\ written = "none"

NextScan ==
    \/ LoadFails \/ Load \/ FindContours \/ Iterate
    \/ Select \/ SelectFails \/ FinalTransformFails \/ Save

(***************************************************************************)
(* SpecValidate: validate_id_number_region on any OCR behaviour.           *)
(***************************************************************************)
ValidateIdle ==
    /\ first_request = Raises
    /\ second_request = Raises
    /\ val_pc = "idle"
    /\ val_result = NoResult

InitValidate ==
    /\ \/ /\ first_request \in {Returns(t) : t \in Texts}
          /\ second_request = Raises
       \/ /\ first_request = Raises
          /\ second_request \in {Raises, Hangs} \cup {Returns(t) : t \in Texts}
       \/ /\ first_request = Hangs
          /\ second_request = Raises
    /\ val_pc = "call"
    /\ val_result = NoResult

ValidateReturn ==
    /\ val_pc = "call"
    /\ ~never_returns(first_request, second_request)
    /\ ~validate_id_number_region(first_request, second_request).raised
    /\ val_result' = validate_id_number_region(first_request, second_request)
    /\ val_pc' = "returned"
    /\ UNCHANGED valRest
    /\ UNCHANGED <<first_request, second_request>>

ValidateRaise ==
    /\ val_pc = "call"
    /\ ~never_returns(first_request, second_request)
    /\ validate_id_number_region(first_request, second_request).raised
    /\ val_pc' = "raised"
    /\ UNCHANGED valRest
    /\ UNCHANGED <<first_request, second_request, val_result>>

\* lines 169-176: the function waits for an answer that never comes
ValidateBlocks ==
    /\ val_pc = "call"
    /\ never_returns(first_request, second_request)
    /\ val_pc' = "blocked"
    /\ UNCHANGED valRest
    /\ UNCHANGED <<first_request, second_request, val_result>>

NextValidate == ValidateReturn \/ ValidateRaise \/ ValidateBlocks

(***************************************************************************)
(* sort_quadrilateral_corners.  The coordinates are small integers, which  *)
(* the float32 output array holds exactly.                                 *)
(***************************************************************************)
\* corner_points.sum(axis=1), one row
CoordinateSum(p) == p[1] + p[2]

\* np.diff(corner_points, axis=1), one row: the second column minus the first
XMinusY_CoordinateDifference(p) == p[1] - p[2]

CoordinateDifference(p) == p[2] - p[1]

\* np.argmin / np.argmax: the first position of the extreme value
ArgMin(values) ==
    CHOOSE i \in DOMAIN values :
        /\ \A j \in DOMAIN values : values[i] <= values[j]
        /\ \A j \in DOMAIN values : j < i => values[j] > values[i]

ArgMax(values) ==
    CHOOSE i \in DOMAIN values :
        /\ \A j \in DOMAIN values : values[i] >= values[j]
        /\ \A j \in DOMAIN values : j < i => values[j] < values[i]

sort_quadrilateral_corners(points) ==
    LET coordinate_sums == [i \in DOMAIN points |-> CoordinateSum(points[i])]
        coordinate_differences == [i \in DOMAIN points |-> CoordinateDifference(points[i])]
    IN  << points[ArgMin(coordinate_sums)],          \* [0] top-left
           points[ArgMin(coordinate_differences)],   \* [1] top-right
           points[ArgMax(coordinate_sums)],          \* [2] bottom-right
           points[ArgMax(coordinate_differences)] >> \* [3] bottom-left

Grid == (0..MaxCoord) \X (0..MaxCoord)
NoPoints == << <<0, 0>>, <<0, 0>>, <<0, 0>>, <<0, 0>> >>

SortIdle ==
    /\ corner_points = NoPoints
    /\ ordered_rectangle = NoPoints
    /\ reordered = NoPoints
    /\ sort_pc = "idle"

InitSort ==
    /\ corner_points \in [1..4 -> Grid]
    /\ ordered_rectangle = NoPoints
    /\ reordered = NoPoints
    /\ sort_pc = "input"

SortCorners ==
    /\ sort_pc = "input"
    /\ ordered_rectangle' = sort_quadrilateral_corners(corner_points)
    /\ sort_pc' = "sorted"
    /\ UNCHANGED sortRest
    /\ UNCHANGED <<corner_points, reordered>>

SortAgain ==
    /\ sort_pc = "sorted"
    /\ reordered' = sort_quadrilateral_corners(ordered_rectangle)
    /\ sort_pc' = "resorted"
    /\ UNCHANGED sortRest
    /\ UNCHANGED <<corner_points, ordered_rectangle>>

NextSort == SortCorners \/ SortAgain

(***************************************************************************)
(* The OCR extractor and _safe_extract.                                    *)
(* A value is described by the invocation of _safe_extract during which it *)
(* was produced (0: the value the module starts with) and by its length,   *)
(* the only thing about its content that the code looks at.                *)
(***************************************************************************)
Value(k, n) == [from |-> k, len |-> n]
EmptyString == Value(0, 0)              \* the '' the globals start with
None == [from |-> -1, len |-> 0]

TextLength == 9                         \* the length of an OCR text of no special interest
IdLengths == {6, 14}                    \* digits read in the identifier region
NameLengths == {1, 8}                   \* characters read for spouse name and workplace
UnknownLength == 7                      \* "Unknown"
NoneFoundLength == 7                    \* the literal put in place of a short name

\* lines 37-48
InitialGlobals ==
    [extracted_full_name |-> EmptyString, extracted_address |-> EmptyString,
     extracted_id_number |-> EmptyString, extracted_birth_date |-> EmptyString,
     extracted_job_title |-> EmptyString, extracted_workplace |-> EmptyString,
     extracted_gender |-> EmptyString, extracted_religion |-> EmptyString,
     extracted_marital_status |-> EmptyString, extracted_spouse_name |-> EmptyString,
     extracted_governorate |-> EmptyString]

\* What one call meets: whether the two scans and the image loads succeed,
\* where the OCR of the front side raises, and the lengths of what is read.
CallInputs ==
    [front_scan_ok : BOOLEAN, back_scan_ok : BOOLEAN,
     front_loads : BOOLEAN, front_ocr_raises_at : {"name", "address", "id_number", "nowhere"},
     id_len : IdLengths,
     back_loads : BOOLEAN, back_ocr_ok : BOOLEAN,
     spouse_len : NameLengths, workplace_len : NameLengths]

\* gender.gen(id_str), as far as the origin of its result goes: "unknown" for
\* fewer than 13 characters, else read off the character at index 12
gen_value(id, k) ==
    IF id.len < 13 THEN Value(k, UnknownLength) ELSE Value(id.from, 3)

\* extract_front_side_data after the image loaded, lines 84-141
extract_front_side_data(g, k, in) ==
    IF in.front_ocr_raises_at = "name" THEN g
    ELSE IF in.front_ocr_raises_at = "address"
    THEN [g EXCEPT !.extracted_full_name = Value(k, TextLength)]
    ELSE IF in.front_ocr_raises_at = "id_number"
    THEN [g EXCEPT !.extracted_full_name = Value(k, TextLength),
                   !.extracted_address = Value(k, TextLength)]
    ELSE [g EXCEPT !.extracted_full_name = Value(k, TextLength),
                   !.extracted_address = Value(k, TextLength),
                   !.extracted_id_number = Value(k, in.id_len),
                   !.extracted_birth_date =
                        IF in.id_len >= 7 THEN Value(k, 10) ELSE g.extracted_birth_date,
                   !.extracted_governorate = Value(k, TextLength)]

\* extract_back_side_data, lines 271-372: it returns early, changing nothing,
\* when the image does not load or the full-page OCR raises
extract_back_side_data(g, k, in) ==
    IF ~in.back_loads \/ ~in.back_ocr_ok THEN g
    ELSE [g EXCEPT !.extracted_job_title = Value(k, TextLength),
                   !.extracted_workplace = Value(k, in.workplace_len),
                   !.extracted_gender = gen_value(g.extracted_id_number, k),
                   !.extracted_religion = Value(k, TextLength),
                   !.extracted_marital_status = Value(k, TextLength),
                   !.extracted_spouse_name = Value(k, in.spouse_len)]

\* main.py lines 144, 146: x if x and len(x.strip()) > 1 else the literal
OrNoneFound(x, k) == IF x.len > 1 THEN x ELSE Value(k, NoneFoundLength)

\* DEFAULT_FIELDS, lines 95-107
FieldKeys == {"id_number", "name_ar", "address", "birth_date", "gender", "religion",
              "social_status", "husband_name", "job", "place_of_work", "place_of_birth"}

AllNone == [key \in FieldKeys |-> None]

\* main.py lines 133-148
data_from_globals(g, k) ==
    [id_number |-> g.extracted_id_number, name_ar |-> g.extracted_full_name,
     address |-> g.extracted_address, birth_date |-> g.extracted_birth_date,
     gender |-> g.extracted_gender, religion |-> g.extracted_religion,
     social_status |-> g.extracted_marital_status,
     husband_name |-> OrNoneFound(g.extracted_spouse_name, k),
     job |-> g.extracted_job_title,
     place_of_work |-> OrNoneFound(g.extracted_workplace, k),
     place_of_birth |-> g.extracted_governorate]

\* an exception reaches the except clause of _safe_extract (line 150): one of
\* the scans raised, or extract_front_side_data could not load its image
call_raises(in) == ~in.front_scan_ok \/ ~in.back_scan_ok \/ ~in.front_loads

\* Where exceptions occur during one call, lines 125-130 in their order: a scan
\* that raises ends the try block; so does extract_front_side_data when its
\* image does not load (line 73); the OCR of the front side (lines 102-115),
\* the load of the back side (lines 271-282) and its OCR (lines 300-309) raise
\* inside the extractor, which catches the exception itself and returns.
exceptions_in(in) ==
    IF ~in.front_scan_ok \/ ~in.back_scan_ok THEN {"scan_id_card"}
    ELSE IF ~in.front_loads THEN {"extractor"}
    ELSE IF \/ in.front_ocr_raises_at # "nowhere"
            \/ ~in.back_loads
            \/ ~in.back_ocr_ok
         THEN {"extractor"}
         ELSE {}

ExtractIdle ==
    /\ modules_available = FALSE
    /\ extracted = InitialGlobals
    /\ invocation = 0
    /\ fields = AllNone
    /\ exceptions = {}

InitExtract ==
    /\ modules_available \in BOOLEAN
    /\ extracted = InitialGlobals
    /\ invocation = 0
    /\ fields = AllNone
    /\ exceptions = {}

\* _safe_extract with a module missing: lines 120-122, 155
SafeExtractDisabled ==
    /\ invocation < MaxCalls
    /\ ~modules_available
    /\ invocation' = invocation + 1
    /\ fields' = AllNone
    /\ exceptions' = {}
    /\ UNCHANGED extractRest
    /\ UNCHANGED <<modules_available, extracted>>

\* _safe_extract when an exception is caught at line 150: data stays {}
SafeExtractCatches ==
    /\ invocation < MaxCalls
    /\ modules_available
    /\ \E in \in CallInputs :
          /\ call_raises(in)
          /\ invocation' = invocation + 1
          /\ fields' = AllNone
          /\ exceptions' = exceptions_in(in)
    /\ UNCHANGED extractRest
    /\ UNCHANGED <<modules_available, extracted>>

\* _safe_extract when both scans and both extractions return: lines 125-148, 155
SafeExtractReturns ==
    /\ invocation < MaxCalls
    /\ modules_available
    /\ \E in \in CallInputs :
          /\ ~call_raises(in)
          /\ LET k == invocation + 1
                 front == extract_front_side_data(extracted, k, in)
                 back == extract_back_side_data(front, k, in)
             IN  /\ invocation' = k
                 /\ extracted' = back
                 /\ fields' = data_from_globals(back, k)
                 /\ exceptions' = exceptions_in(in)
    /\ UNCHANGED extractRest
    /\ UNCHANGED modules_available

NextExtract == SafeExtractDisabled \/ SafeExtractCatches \/ SafeExtractReturns

(***************************************************************************)
(* IEEE-754 doubles, as far as calculate_egyptian_id_confidence_score      *)
(* needs them.  A double in [0, 2) that is a multiple of 2^-56 is held     *)
(* exactly as <<hi, lo>>, standing for (hi * 2^28 + lo) * 2^-56.  The      *)
(* weights and every sum of them are of that kind.                         *)
(***************************************************************************)
LimbBase == 2^28

Zero == <<0, 0>>
One == <<2^28, 0>>
\* 0.10 is the double 0x1.999999999999Ap-4, 0.35 is 0x1.6666666666666p-2,
\* 0.20 is 0x1.999999999999Ap-3
CenturyWeight == <<26843545, 161061274>>
MonthWeight == <<93952409, 161061272>>
DayWeight == <<93952409, 161061272>>
GovernorateWeight == <<53687091, 53687092>>

\* the spacing of the doubles around a value, in units of 2^-56: 53
\* significant bits, so 2^-52 in [1, 2), 2^-53 in [1/2, 1) and so on; below
\* 2^-3 every multiple of 2^-56 is a double
UnitInLastPlace(hi) ==
    IF hi >= 2^28 THEN 16
    ELSE IF hi >= 2^27 THEN 8
    ELSE IF hi >= 2^26 THEN 4
    ELSE IF hi >= 2^25 THEN 2
    ELSE 1

Carry(hi, lo) == <<hi + (lo \div LimbBase), lo % LimbBase>>

\* round to nearest, ties to even
RoundToDouble(x) ==
    LET ulp == UnitInLastPlace(x[1])
        rest == x[2] % ulp
        down == x[2] - rest
        up == (2 * rest > ulp) \/ (2 * rest = ulp /\ (x[2] \div ulp) % 2 = 1)
    IN  Carry(x[1], IF up THEN down + ulp ELSE down)

\* a + b of two doubles
FloatAdd(a, b) == RoundToDouble(Carry(a[1] + b[1], a[2] + b[2]))

FloatLeq(a, b) == a[1] < b[1] \/ (a[1] = b[1] /\ a[2] <= b[2])

\* min(a, b)
FloatMin(a, b) == IF FloatLeq(b, a) THEN b ELSE a

(***************************************************************************)
(* Strings of digits.  str.isdigit() holds of a non-empty string of        *)
(* characters that are digits of any kind; int() reads decimal digits of   *)
(* any script and raises ValueError on the other digits (superscripts).    *)
(***************************************************************************)
Devanagari == 2406..2415

IsDecimal(c) == c \in AsciiDigits \cup ArabicIndic \cup EasternArabic \cup Devanagari

DecimalValue(c) ==
    IF c \in AsciiDigits THEN c - 48
    ELSE IF c \in ArabicIndic THEN c - 1632
    ELSE IF c \in EasternArabic THEN c - 1776
    ELSE c - 2406

isdigit(s) == s # <<>> /\ \A k \in 1..Len(s) : IsDigit(s[k])

int_raises(s) == \E k \in 1..Len(s) : ~IsDecimal(s[k])

\* int() of a string of two decimal digits
int(s) == 10 * DecimalValue(s[1]) + DecimalValue(s[2])

\* lines 250-256
valid_governorate_codes ==
    {<<48 + a, 48 + b>> : <<a, b>> \in ({0} \X (1..4)) \cup ({1} \X (1..9))
                                       \cup ({2} \X (1..9)) \cup ({3} \X (1..5))
                                       \cup {<<8, 8>>}}

(***************************************************************************)
(* calculate_egyptian_id_confidence_score.  Positions are 1-based here:    *)
(* id_number[3:5] is SubSeq(id_number, 4, 5).                              *)
(***************************************************************************)
Inverted_add_weight(score, passes, weight) ==
    IF passes THEN score ELSE FloatAdd(score, weight)

\* if <check>: confidence_score += <weight>
add_weight(score, passes, weight) ==
    IF passes THEN FloatAdd(score, weight) ELSE score

calculate_egyptian_id_confidence_score(id) ==
    IF id = <<>> \/ ~isdigit(id) THEN Zero
    ELSE
    LET after_century == add_weight(Zero, Len(id) >= 1 /\ id[1] \in {50, 51}, CenturyWeight)
        month_str == SubSeq(id, 4, 5)
        day_str == SubSeq(id, 6, 7)
        after_date ==
            IF Len(id) >= 7 /\ isdigit(month_str) /\ isdigit(day_str)
               /\ ~int_raises(month_str) /\ ~int_raises(day_str)
            THEN add_weight(add_weight(after_century,
                                       1 <= int(month_str) /\ int(month_str) <= 12,
                                       MonthWeight),
                            1 <= int(day_str) /\ int(day_str) <= 31,
                            DayWeight)
            ELSE after_century
        after_governorate ==
            add_weight(after_date,
                       Len(id) >= 9 /\ SubSeq(id, 8, 9) \in valid_governorate_codes,
                       GovernorateWeight)
    IN  FloatMin(after_governorate, One)

(***************************************************************************)
(* The strings the function is called on: a century character, "99", a     *)
(* month, a day, a governorate code and a tail, cut to 0..MaxIdLength      *)
(* characters, with at most one character replaced by a letter, a          *)
(* superscript digit or a Devanagari digit.                                *)
(***************************************************************************)
Centuries == {<<49>>, <<50>>, <<51>>}
Months == {<<48, 48>>, <<48, 49>>, <<49, 50>>, <<49, 51>>}
Days == {<<48, 48>>, <<48, 49>>, <<51, 49>>, <<51, 50>>}
Governorates == {<<48, 48>>, <<48, 49>>, <<51, 54>>, <<56, 56>>}
Intruders == {65, 178, 2407}

Layout(century, month, day, governorate, n) ==
    LET full == century \o <<57, 57>> \o month \o day \o governorate
    IN  [k \in 1..n |-> IF k <= Len(full) THEN full[k] ELSE 53]

\* s with the characters of piece written from position from on, as far as s goes
Overwrite(s, from, piece) ==
    [k \in 1..Len(s) |-> IF k >= from /\ k < from + Len(piece) THEN piece[k - from + 1] ELSE s[k]]

CleanIds ==
    {Layout(c, m, d, g, n) : c \in Centuries, m \in Months, d \in Days,
                             g \in Governorates, n \in 0..MaxIdLength}

IdNumbers ==
    CleanIds \cup {Overwrite(s, k, <<x>>) : s \in CleanIds, k \in 1..MaxIdLength, x \in Intruders}

\* the strings that differ from s in one of the four fields at most
OtherIds(s) ==
    {Overwrite(s, 1, c) : c \in Centuries} \cup {Overwrite(s, 4, m) : m \in Months}
    \cup {Overwrite(s, 6, d) : d \in Days} \cup {Overwrite(s, 8, g) : g \in Governorates}

ScoreIdle ==
    /\ id_number = <<>>
    /\ confidence_score = Zero
    /\ previous_id_number = <<>>
    /\ previous_score = Zero
    /\ score_pc = "idle"

InitScore ==
    /\ id_number \in IdNumbers
    /\ confidence_score = Zero
    /\ previous_id_number = <<>>
    /\ previous_score = Zero
    /\ score_pc = "input"

ScoreIdNumber ==
    /\ score_pc = "input"
    /\ confidence_score' = calculate_egyptian_id_confidence_score(id_number)
    /\ score_pc' = "scored"
    /\ UNCHANGED scoreRest
    /\ UNCHANGED <<id_number, previous_id_number, previous_score>>

ScoreAnother ==
    /\ score_pc = "scored"
    /\ \E other \in OtherIds(id_number) \ {id_number} :
          /\ id_number' = other
          /\ confidence_score' = calculate_egyptian_id_confidence_score(other)
    /\ previous_id_number' = id_number
    /\ previous_score' = confidence_score
    /\ score_pc' = "rescored"
    /\ UNCHANGED scoreRest

NextScore == ScoreIdNumber \/ ScoreAnother

(***************************************************************************)
(* The sizes of the images between the warp and the OCR crop.  A shape is  *)
(* <<rows, columns>>, as numpy's; a cv2 size is <<width, height>>.         *)
(***************************************************************************)
FINAL_CARD_SIZE == <<1000, 630>>

\* the shapes apply_perspective_correction can return
WarpedShapes == (1..MaxSide) \X (1..MaxSide)

NoShape == <<0, 0>>

Transposed_cv2_resize(shape, dsize) == <<dsize[1], dsize[2]>>

\* cv2.resize(src, dsize): dsize[1] columns and dsize[2] rows, whatever src is
cv2_resize(shape, dsize) == <<dsize[2], dsize[1]>>

\* the number of indices of a[low:high] on an axis of n
SliceLength(n, low, high) ==
    IF Min(high, n) > Min(low, n) THEN Min(high, n) - Min(low, n) ELSE 0

\* line 164: binary_thresholded_image[480:560, 400:1000]
id_number_region(shape) ==
    <<SliceLength(shape[1], 480, 560), SliceLength(shape[2], 400, 1000)>>

SizeIdle ==
    /\ normalizing_for = "none"
    /\ warped_shape = NoShape
    /\ standardized_shape = NoShape
    /\ id_region_shape = NoShape
    /\ size_pc = "idle"

InitSize ==
    /\ normalizing_for \in {"candidate", "final"}
    /\ warped_shape \in WarpedShapes
    /\ standardized_shape = NoShape
    /\ id_region_shape = NoShape
    /\ size_pc = "warped"

\* extract_and_transform_card, lines 126-130, and scan_id_card, lines 393-397
Resize ==
    /\ size_pc = "warped"
    /\ standardized_shape' = cv2_resize(warped_shape, FINAL_CARD_SIZE)
    /\ size_pc' = "resized"
    /\ UNCHANGED sizeRest
    /\ UNCHANGED <<normalizing_for, warped_shape, id_region_shape>>

\* validate_id_number_region, line 164, on the image of a candidate
CropIdRegion ==
    /\ size_pc = "resized"
    /\ normalizing_for = "candidate"
    /\ id_region_shape' = id_number_region(standardized_shape)
    /\ size_pc' = "cropped"
    /\ UNCHANGED sizeRest
    /\ UNCHANGED <<normalizing_for, warped_shape, standardized_shape>>

\* scan_id_card, lines 407-410: the final image is written and returned
Publish ==
    /\ size_pc = "resized"
    /\ normalizing_for = "final"
    /\ size_pc' = "published"
    /\ UNCHANGED sizeRest
    /\ UNCHANGED <<normalizing_for, warped_shape, standardized_shape, id_region_shape>>

NextSize == Resize \/ CropIdRegion \/ Publish

(***************************************************************************)
(* apply_perspective_correction, as far as the size of its output goes.    *)
(* ordered_corners is a float32 array, so the differences, the squares,    *)
(* their sum and the square root are float32 values.  The coordinates are  *)
(* integers below 2^24, which float32 holds exactly; so are their          *)
(* differences.                                                            *)
(***************************************************************************)
\* the spacing of the float32 values around the integer n: 24 significant bits
Float32Spacing(n) ==
    IF n < 2^24 THEN 1
    ELSE IF n < 2^25 THEN 2
    ELSE IF n < 2^26 THEN 4
    ELSE 8

\* the float32 nearest to the integer n, ties to even
Float32(n) ==
    LET step == Float32Spacing(n)
        rest == n % step
        down == n - rest
    IN  IF 2 * rest > step \/ (2 * rest = step /\ (n \div step) % 2 = 1)
        THEN down + step ELSE down

\* the largest r in low..high with r * r <= n
RECURSIVE RootBetween(_, _, _)
RootBetween(n, low, high) ==
    IF low = high THEN low
    ELSE LET middle == (low + high + 1) \div 2
         IN  IF middle * middle <= n THEN RootBetween(n, middle, high)
             ELSE RootBetween(n, low, middle - 1)

IntegerRoot(n) == RootBetween(n, 0, 2^13)

\* e with 2^e < k <= 2^(e+1), for k in 2..2^13
RECURSIVE BinadeBelow(_, _)
BinadeBelow(k, e) == IF k <= 2^(e + 1) THEN e ELSE BinadeBelow(k, e + 1)

\* int(np.sqrt(s)) for a float32 s that is an integer: np.sqrt returns the
\* float32 nearest to the root, which is the next integer k when the root is
\* within half a spacing of it: (k - h)^2 <= s with h = 2^(e-24), that is
\* (k^2 - s) * 2^(23-e) < k
int_sqrt(s) ==
    LET k == IntegerRoot(s) + 1
    IN  IF k >= 2 /\ (k * k - s) * 2^(23 - BinadeBelow(k, 0)) < k THEN k
        ELSE k - 1

\* int(np.sqrt((a[0] - b[0]) ** 2 + (a[1] - b[1]) ** 2))
edge_length(a, b) ==
    int_sqrt(Float32(Float32((a[1] - b[1]) * (a[1] - b[1]))
                     + Float32((a[2] - b[2]) * (a[2] - b[2]))))

Max(a, b) == IF a >= b THEN a ELSE b

\* lines 101-136, on ordered corners <<top_left, top_right, bottom_right, bottom_left>>
optimal_output_width(c) == Max(edge_length(c[3], c[4]), edge_length(c[2], c[1]))
optimal_output_height(c) == Max(edge_length(c[2], c[3]), edge_length(c[1], c[4]))

\* the corners the function is called on: of small quadrilaterals and of
\* quadrilaterals that span a photograph more than 4096 pixels wide
WarpColumns == {0, 3, 4232}
WarpRows == {0, 92, 108, 200}
WarpPoints == WarpColumns \X WarpRows

WarpIdle ==
    /\ quadrilateral_corners = NoPoints
    /\ ordered_corners = NoPoints
    /\ output_size = <<0, 0>>
    /\ warp_pc = "idle"

InitWarp ==
    /\ quadrilateral_corners \in [1..4 -> WarpPoints]
    /\ ordered_corners = NoPoints
    /\ output_size = <<0, 0>>
    /\ warp_pc = "called"

\* line 98
OrderCorners ==
    /\ warp_pc = "called"
    /\ ordered_corners' = sort_quadrilateral_corners(quadrilateral_corners)
    /\ warp_pc' = "ordered"
    /\ UNCHANGED warpRest
    /\ UNCHANGED <<quadrilateral_corners, output_size>>

\* lines 101-126
MeasureOutput ==
    /\ warp_pc = "ordered"
    /\ output_size' = <<optimal_output_width(ordered_corners),
                        optimal_output_height(ordered_corners)>>
    /\ warp_pc' = "measured"
    /\ UNCHANGED warpRest
    /\ UNCHANGED <<quadrilateral_corners, ordered_corners>>

NextWarp == OrderCorners \/ MeasureOutput

(***************************************************************************)
(* The HTTP handlers of main.py: POST /api/upload, GET /api/result/{id}    *)
(* and GET /api/temp/{image_type}.  Each handler is one step.  An upload   *)
(* is known by its number (the value of invocation it runs under); the     *)
(* processed card image a scan writes is known by the upload it belongs    *)
(* to, and created_at by the upload that read the clock.                   *)
(***************************************************************************)
MaxUploads == 2

\* values of uuid.uuid4().hex[:12], line 197: nothing in upload() checks that
\* the identifier is new, so two uploads may draw the same one
SessionIds == {"5f0c2a", "a91e7b"}
\* identifiers a client may ask for: the two above and one no upload draws
RequestIds == SessionIds \cup {"000000"}
CardSides == {"front", "back"}
ImageTypes == CardSides \cup {"thumb"}
ContentTypes == {"image/jpeg", "text/plain", ""}

NoFile == [exists |-> FALSE]
NoPayload == [session_id |-> ""]
NoRequest == [endpoint |-> "none"]
NoResponse == [status |-> 0]

\* lines 191-194: content_type and not content_type.startswith("image/")
rejected_content_type(t) == t # "" /\ t # "image/jpeg"

\* the path of the result file with another session's identifier in it
Shared_result_path(sid) == "5f0c2a"

\* os.path.join(session_dir, f"result_{sid}.json"), lines 198, 216 and 237-238
result_path(sid) == sid

\* {**DEFAULT_FIELDS, **fields}, line 211
merge_defaults(f) == [key \in FieldKeys |-> IF key \in DOMAIN f THEN f[key] ELSE None]

\* payload, lines 207-214 (source and version are literals)
payload_of(sid, k, f) ==
    [session_id |-> sid, created_at |-> k,
     images |-> [front |-> sid, back |-> sid],
     fields |-> merge_defaults(f)]

\* json.dump and json.load, lines 217-218 and 241-242: None is written as
\* null, a str as a JSON string, and read back the same way
json_of_value(v) == IF v = None THEN [json |-> "null"] ELSE [json |-> "string", text |-> v]
value_of_json(j) == IF j.json = "null" THEN None ELSE j.text

json_dump(payload) ==
    [exists |-> TRUE,
     session_id |-> [json |-> "string", text |-> payload.session_id],
     created_at |-> [json |-> "string", text |-> payload.created_at],
     images |-> [side \in CardSides |-> [json |-> "string", text |-> payload.images[side]]],
     fields |-> [key \in FieldKeys |-> json_of_value(payload.fields[key])]]

json_load(file) ==
    [session_id |-> file.session_id.text, created_at |-> file.created_at.text,
     images |-> [side \in CardSides |-> file.images[side].text],
     fields |-> [key \in FieldKeys |-> value_of_json(file.fields[key])]]

\* What an upload meets, as far as the handlers can tell uploads apart:
\* whether each scan succeeds and whether the OCR of the front side raises.
UploadInputs ==
    {in \in CallInputs :
        /\ in.front_loads /\ in.back_loads /\ in.back_ocr_ok
        /\ in.front_ocr_raises_at \in {"nowhere", "id_number"}
        /\ in.id_len = 14 /\ in.spouse_len = 8 /\ in.workplace_len = 8}

\* card_recognition.py lines 399-408, called at main.py lines 125-126: the
\* scan of a side writes temp_<side>.jpg when it succeeds, and the back side
\* is scanned only after the front side has been
scan_writes(in, side) ==
    IF side = "front" THEN in.front_scan_ok ELSE in.front_scan_ok /\ in.back_scan_ok

\* the content of a temp file: the processed card image of one upload
processed_image(k) == [card_of_upload |-> k]

ApiIdle ==
    /\ result_files = [path \in {result_path(sid) : sid \in RequestIds} |-> NoFile]
    /\ temp_files = [side \in CardSides |-> 0]
    /\ returned = [sid \in RequestIds |-> NoPayload]
    /\ processed = [sid \in RequestIds |-> [side \in CardSides |-> 0]]
    /\ request = NoRequest
    /\ response = NoResponse

\* upload(), lines 191-194: a part that is not an image is refused
UploadRejected ==
    /\ \E front_type \in ContentTypes, back_type \in ContentTypes :
          rejected_content_type(front_type) \/ rejected_content_type(back_type)
    /\ request' = [endpoint |-> "upload"]
    /\ response' = [status |-> 400]
    /\ UNCHANGED apiRest
    /\ UNCHANGED <<result_files, temp_files, returned, processed>>

\* upload(), lines 196-220, with the call of _safe_extract (lines 120-155)
Upload ==
    /\ invocation < MaxUploads
    /\ \E sid \in SessionIds, in \in UploadInputs :
          LET k == invocation + 1
              completes == modules_available /\ ~call_raises(in)
              front == extract_front_side_data(extracted, k, in)
              back == extract_back_side_data(front, k, in)
              data == IF completes THEN data_from_globals(back, k) ELSE AllNone
              payload == payload_of(sid, k, data)
              wrote == [side \in CardSides |->
                            IF modules_available /\ scan_writes(in, side) THEN k ELSE 0]
          IN  /\ invocation' = k
              /\ extracted' = IF completes THEN back ELSE extracted
              /\ fields' = data
              /\ exceptions' = IF modules_available THEN exceptions_in(in) ELSE {}
              /\ temp_files' = [side \in CardSides |->
                                    IF wrote[side] # 0 THEN k ELSE temp_files[side]]
              /\ result_files' = [result_files EXCEPT ![result_path(sid)] = json_dump(payload)]
              /\ returned' = [returned EXCEPT ![sid] = payload]
              /\ processed' = [processed EXCEPT ![sid] = wrote]
              /\ request' = [endpoint |-> "upload"]
              /\ response' = [status |-> 200, body |-> payload]
    /\ UNCHANGED uploadRest
    /\ UNCHANGED modules_available

\* get_result(), lines 237-243
GetResult ==
    /\ \E session_id \in RequestIds :
          LET out_path == result_path(session_id)
          IN  /\ request' = [endpoint |-> "result", session_id |-> session_id]
              /\ response' = IF result_files[out_path] = NoFile
                             THEN [status |-> 404]
                             ELSE [status |-> 200, body |-> json_load(result_files[out_path])]
    /\ UNCHANGED apiRest
    /\ UNCHANGED <<result_files, temp_files, returned, processed>>

\* get_temp_image(), lines 273-280; the request says nothing of the session
\* of the client that sends it
GetTempImage ==
    /\ \E client \in SessionIds, image_type \in ImageTypes :
          /\ request' = [endpoint |-> "temp", client |-> client, image_type |-> image_type]
          /\ response' = IF image_type \notin CardSides THEN [status |-> 400]
                         ELSE IF temp_files[image_type] = 0 THEN [status |-> 404]
                         ELSE [status |-> 200, body |-> processed_image(temp_files[image_type])]
    /\ UNCHANGED apiRest
    /\ UNCHANGED <<result_files, temp_files, returned, processed>>

NextApi == UploadRejected \/ Upload \/ GetResult \/ GetTempImage

(***************************************************************************)
(* gender.gen, on strings of code points.                                  *)
(***************************************************************************)
MaxTail == 2

Unknown == "unknown"            \* the Arabic for "unknown", lines 6 and 23
Female == "female"              \* the Arabic for "female", line 25
Male == "male"                  \* the Arabic for "male", line 25

\* line 25
by_parity(d) == IF d % 2 = 0 THEN Female ELSE Male

\* gen(id_str), lines 3-25.  int(gender_ch) reads any Unicode decimal digit
\* and raises ValueError for every other character; arabic_indic_map holds
\* U+0660..U+0669.
gen(s) ==
    IF s = <<>> \/ Len(s) < 13 THEN Unknown
    ELSE LET gender_ch == s[13]
         IN  IF ~int_raises(<<gender_ch>>) THEN by_parity(DecimalValue(gender_ch))
             ELSE IF gender_ch \in ArabicIndic THEN by_parity(gender_ch - 1632)
             ELSE Unknown

\* the first twelve characters of an identifier, "299012301234"
IdPrefix == <<50, 57, 57, 48, 49, 50, 51, 48, 49, 50, 51, 52>>
\* characters met at index 12: the ASCII and Arabic-Indic digits, Eastern
\* Arabic one, Devanagari one, superscript two, 'A' and space
GenderCharacters == AsciiDigits \cup ArabicIndic \cup {1777, 2407, 178, 65, 32}
IdStrings ==
    {SubSeq(IdPrefix, 1, n) : n \in 0..12}
        \cup {IdPrefix \o <<c>> \o SubSeq(<<55, 1633, 48>>, 1, n) :
                    c \in GenderCharacters, n \in 0..MaxTail}

GenIdle ==
    /\ id_str = <<>>
    /\ gender = ""
    /\ gen_pc = "idle"

InitGen ==
    /\ id_str \in IdStrings
    /\ gender = ""
    /\ gen_pc = "called"

CallGen ==
    /\ gen_pc = "called"
    /\ gender' = gen(id_str)
    /\ gen_pc' = "returned"
    /\ UNCHANGED genRest
    /\ UNCHANGED id_str

(***************************************************************************)
(* The specifications.                                                     *)
(***************************************************************************)
OthersIdle == ScoreIdle /\ SizeIdle /\ WarpIdle /\ ApiIdle /\ GenIdle

InitSpecValidate == InitValidate /\ ScanIdle /\ SortIdle /\ ExtractIdle /\ OthersIdle

SpecValidate == InitSpecValidate /\ [][NextValidate]_vars

\* the function is synchronous code: once called it takes every step it can
SpecValidateLive == InitSpecValidate /\ [][NextValidate]_vars /\ WF_vars(NextValidate)

Init == InitScan /\ ValidateIdle /\ SortIdle /\ ExtractIdle /\ OthersIdle

Spec == Init /\ [][NextScan]_vars

InitSpecCrowded == InitCrowdedScan /\ ValidateIdle /\ SortIdle /\ ExtractIdle /\ OthersIdle

SpecCrowded == InitSpecCrowded /\ [][NextScan]_vars

InitSpecSort == InitSort /\ ValidateIdle /\ ScanIdle /\ ExtractIdle /\ OthersIdle

InitSpecExtract == InitExtract /\ ValidateIdle /\ ScanIdle /\ SortIdle /\ OthersIdle

SpecExtract == InitSpecExtract /\ [][NextExtract]_vars

SpecSort == InitSpecSort /\ [][NextSort]_vars

InitSpecScore ==
    /\ InitScore /\ ValidateIdle /\ ScanIdle /\ SortIdle /\ ExtractIdle /\ SizeIdle /\ WarpIdle
    /\ ApiIdle /\ GenIdle

SpecScore == InitSpecScore /\ [][NextScore]_vars

InitSpecSize ==
    /\ InitSize /\ ValidateIdle /\ ScanIdle /\ SortIdle /\ ExtractIdle /\ ScoreIdle /\ WarpIdle
    /\ ApiIdle /\ GenIdle

SpecSize == InitSpecSize /\ [][NextSize]_vars

InitSpecWarp ==
    /\ InitWarp /\ ValidateIdle /\ ScanIdle /\ SortIdle /\ ExtractIdle /\ ScoreIdle /\ SizeIdle
    /\ ApiIdle /\ GenIdle

SpecWarp == InitSpecWarp /\ [][NextWarp]_vars

InitSpecApi ==
    /\ ApiIdle /\ InitExtract /\ ValidateIdle /\ ScanIdle /\ SortIdle
    /\ ScoreIdle /\ SizeIdle /\ WarpIdle /\ GenIdle

SpecApi == InitSpecApi /\ [][NextApi]_vars

InitSpecGen ==
    /\ InitGen /\ ValidateIdle /\ ScanIdle /\ SortIdle /\ ExtractIdle
    /\ ScoreIdle /\ SizeIdle /\ WarpIdle /\ ApiIdle

SpecGen == InitSpecGen /\ [][CallGen]_vars


(***************************************************************************)
(* Vocabulary of the claims about the scan.                                *)
(***************************************************************************)
\* the number of characters of a text that are digits of any script
DigitCount(text) == Cardinality({k \in 1..Len(text) : IsDigit(text[k])})

\* the loop of find_best_card_contour is over
LoopLeft == image.decodable /\ pc \in {"after_loop", "selected", "done", "failed"}

\* scan_id_card is over, on an image that was decoded
ScanOver == image.decodable /\ pc \in {"done", "failed"}

Ranks == 1..Len(largest_contours)

\* the ranks of the 4-point candidates
Quads == {i \in Ranks : largest_contours[i].four}

\* what the OCR engine ends up returning for a contour, if anything
EngineAnswer(c) ==
    IF c.first # "raise" THEN image_to_string(c.first) ELSE image_to_string(c.second)

\* the engine behaviours whose text holds at least 12 digits
PassingBehaviours ==
    {b \in {"pass_text", "fail_text"} : DigitCount(image_to_string(b).text) >= 12}

\* the behaviour the OCR engine ends on for a contour
EngineBehaviour(c) == IF c.first # "raise" THEN c.first ELSE c.second

\* the ranks of the candidates that normalize and pass the validity gate
PassingRanks ==
    {i \in Quads : /\ largest_contours[i].warps
                   /\ EngineBehaviour(largest_contours[i]) \in PassingBehaviours}

FirstOf(S) == CHOOSE i \in S : \A j \in S : i <= j

RanksIn(log) == {log[k] : k \in 1..Len(log)}

(***************************************************************************)
(* C1: if some candidate normalizes and passes the validity gate, the      *)
(* contour chosen by find_best_card_contour is the lowest-ranked such      *)
(* candidate, and no candidate ranked after it is ever normalized or sent  *)
(* to OCR.                                                                 *)
(***************************************************************************)
C1_FirstPassingWins ==
    LET passing == PassingRanks
        winner == FirstOf(passing)
    IN  passing # {} =>
            /\ \A r \in RanksIn(normalized) : r <= winner
            /\ \A q \in RanksIn(ocr_log) : q[1] <= winner
            /\ LoopLeft => /\ best_validated_contour = winner
                           /\ ~used_fallback
                           /\ raised # "NoQuadrilateralFound"

\* a rejected candidate, then the accepted one, then another that would pass
C1_Witness ==
    /\ pc = "selected"
    /\ PassingRanks = {2, 3}
    /\ 1 \in Quads
    /\ best_validated_contour = 2
    /\ normalized = <<1, 2>>

(***************************************************************************)
(* C2, as claimed: with a 4-point candidate, every 4-point candidate       *)
(* normalizing and none passing the gate, scan_id_card completes without   *)
(* an exception and chooses the first 4-point candidate.                   *)
(***************************************************************************)
C2_Case ==
    /\ ScanOver
    /\ Quads # {}
    /\ \A i \in Quads : largest_contours[i].warps
    /\ PassingRanks = {}

C3_NoQuadIsFatal ==
    (ScanOver /\ Quads = {}) =>
        /\ pc = "failed"
        /\ raised = "NoQuadrilateralFound"
        /\ ocr_log = <<>>
        /\ normalized = <<>>
        /\ written = "none"

C3_Witness ==
    /\ ScanOver
    /\ Quads = {}
    /\ Len(largest_contours) = 2
    /\ raised = "NoQuadrilateralFound"

(***************************************************************************)
(* C4: if 4-point candidates exist and every one of them fails             *)
(* normalization, the scan ends with the "no suitable quadrilateral"       *)
(* error and no other exception.                                           *)
(***************************************************************************)
C4_AllDegenerateIsNoQuad ==
    (ScanOver /\ Quads # {} /\ \A i \in Quads : ~largest_contours[i].warps) =>
        raised = "NoQuadrilateralFound"

(***************************************************************************)
(* C5: every scan of a decodable image ends in exactly one of Accept (a    *)
(* validated candidate), Fallback (the unvalidated first quadrilateral)    *)
(* or Fatal (no suitable quadrilateral).                                   *)
(***************************************************************************)
Accept   == pc = "done" /\ raised = "none" /\ ~used_fallback
Fallback == pc = "done" /\ raised = "none" /\ used_fallback
Fatal    == pc = "failed" /\ raised = "NoQuadrilateralFound"

\* The ValueError for a card_side_type that is neither "front" nor "back" is
\* left aside here: the outcome that remains is an exception of the warp.
C5_ThreeTerminalStates ==
    (ScanOver /\ raised # "InvalidSideError") => (Accept \/ Fallback \/ Fatal)

(***************************************************************************)
(* C7: the validity gate passes exactly when the normalized digit string   *)
(* has at least 12 digits: 14 digits pass, 11 fail, exactly 12 pass,       *)
(* whatever the digits are.                                                *)
(***************************************************************************)
\* the text validate_id_number_region got from the engine
AnsweredText == IF first_request.raised THEN second_request.text ELSE first_request.text

C7_GateAtTwelveDigits ==
    val_pc = "returned" =>
        /\ val_result.valid <=> (Len(val_result.digits) >= 12)
        /\ Len(val_result.digits) = DigitCount(AnsweredText)
        /\ Len(val_result.digits) = 14 => val_result.valid
        /\ Len(val_result.digits) = 12 => val_result.valid
        /\ Len(val_result.digits) = 11 => ~val_result.valid

\* exactly 12 digits, of two scripts, among 12 other characters
C7_Witness ==
    /\ val_pc = "returned"
    /\ Len(val_result.digits) = 12
    /\ Len(AnsweredText) = 24
    /\ val_result.valid
    /\ \E k \in 1..Len(AnsweredText) : AnsweredText[k] \in ArabicIndic

(***************************************************************************)
(* C8: the digit string returned by validate_id_number_region consists of  *)
(* the ASCII digits '0'..'9' only, whatever text the OCR engine returned.  *)
(***************************************************************************)
C8_AsciiDigitsOnly ==
    val_pc = "returned" =>
        \A k \in 1..Len(val_result.digits) : val_result.digits[k] \in AsciiDigits

(***************************************************************************)
(* Vocabulary of the claims about the corner ordering.                     *)
(***************************************************************************)
InputPoints == {corner_points[i] : i \in 1..4}

MinimizesOver(p, f(_)) == p \in InputPoints /\ \A q \in InputPoints : f(p) <= f(q)
MaximizesOver(p, f(_)) == p \in InputPoints /\ \A q \in InputPoints : f(p) >= f(q)

SumXY(p) == p[1] + p[2]
XMinusY(p) == p[1] - p[2]

Cross(a, b, c) == (b[1] - a[1]) * (c[2] - b[2]) - (b[2] - a[2]) * (c[1] - b[1])

\* q, walked in its own order, is a strictly convex quadrilateral
StrictlyConvexInOrder(q) ==
    \/ \A i \in 1..4 : Cross(q[i], q[(i % 4) + 1], q[((i + 1) % 4) + 1]) > 0
    \/ \A i \in 1..4 : Cross(q[i], q[(i % 4) + 1], q[((i + 1) % 4) + 1]) < 0

\* the four points are the corners of a convex, non-degenerate quadrilateral
ConvexQuadrilateral(points) ==
    \E f \in [1..4 -> 1..4] :
        /\ \A i, j \in 1..4 : f[i] = f[j] => i = j
        /\ StrictlyConvexInOrder([i \in 1..4 |-> points[f[i]]])

(***************************************************************************)
(* C10: corner ordering is idempotent: ordering the ordered corners again  *)
(* returns the same four corners in the same order.  The claim is for      *)
(* every 4-point input; it is stated here for the corners of convex,       *)
(* non-degenerate quadrilaterals alone, the inputs the ordering is         *)
(* specified for.                                                          *)
(***************************************************************************)
C10_SortIsIdempotent ==
    (sort_pc = "resorted" /\ ConvexQuadrilateral(corner_points)) =>
        reordered = ordered_rectangle

(***************************************************************************)
(* C6: no field returned by an invocation carries a value produced while   *)
(* processing an earlier invocation, also when an OCR step of the current  *)
(* invocation fails.                                                       *)
(***************************************************************************)
C6_NothingFromEarlierCalls ==
    \A key \in FieldKeys :
        fields[key] # None => fields[key].from \in {0, invocation}

(***************************************************************************)
(* C14: if the source image cannot be decoded the scan fails at once with  *)
(* the image-load error: no contour is looked for, no candidate is         *)
(* normalized, no OCR request is made, no fallback is remembered or used   *)
(* and no output image is written.                                         *)
(***************************************************************************)
C14_UndecodableImageIsFatal ==
    (~image.decodable /\ pc \notin {"idle", "start"}) =>
        /\ pc = "failed"
        /\ raised = "ImageLoadError"
        /\ largest_contours = <<>>
        /\ idx = 0
        /\ normalized = <<>>
        /\ ocr_log = <<>>
        /\ fallback_quadrilateral = 0
        /\ best_validated_contour = 0
        /\ ~used_fallback
        /\ final_transform = 0
        /\ written = "none"

C14_Witness ==
    /\ ~image.decodable
    /\ pc = "failed"
    /\ raised = "ImageLoadError"
    /\ written = "none"

(***************************************************************************)
(* C16, as claimed: the candidate remembered as the fallback is one whose  *)
(* normalization succeeded, and when no candidate passes the gate the      *)
(* contour chosen is the first candidate in rank order that normalizes.    *)
(***************************************************************************)
NormalizingRanks == {i \in Quads : largest_contours[i].warps}

C16_FallbackIsNormalized ==
    /\ fallback_quadrilateral # 0 => fallback_quadrilateral \in NormalizingRanks
    /\ (pc \in {"selected", "done", "failed"} /\ used_fallback) =>
           /\ NormalizingRanks # {}
           /\ best_validated_contour = FirstOf(NormalizingRanks)

(***************************************************************************)
(* C17, as claimed: a candidate whose normalization or validation raises   *)
(* does not end the loop (no exception leaves find_best_card_contour on    *)
(* its account and the candidate ranked after it, if any, is evaluated     *)
(* too), and its failure never aborts the scan.                            *)
(***************************************************************************)
\* the candidate raises inside the try block of the loop
RaisesInLoop(c) ==
    c.four /\ (~c.warps \/ (c.first = "raise" /\ c.second = "raise"))

\* the part of the claim about the loop itself
FailureDoesNotEndLoop(i) ==
    /\ pc \in {"loop", "after_loop"} => raised = "none"
    /\ i < Len(largest_contours) =>
           \/ idx > i + 1
           \/ idx = i + 1 /\ pc = "loop"

\* the scan was not aborted by the geometry of candidate i
FailureDoesNotAbortScan(i) ==
    ~(raised = "TransformError" /\ final_transform = i)

C17_FailureNeverAborts ==
    \A i \in Ranks :
        (i < idx /\ RaisesInLoop(largest_contours[i])) =>
            FailureDoesNotEndLoop(i) /\ FailureDoesNotAbortScan(i)

(***************************************************************************)
(* C20, as claimed: for the corners of a convex, non-degenerate            *)
(* quadrilateral, given in any order, sort_quadrilateral_corners returns a *)
(* permutation of the four input points: no corner is duplicated, none is  *)
(* dropped.                                                                *)
(***************************************************************************)
Permutations4 == {f \in [1..4 -> 1..4] : \A i, j \in 1..4 : f[i] = f[j] => i = j}

IsPermutationOf(out, in) == \E f \in Permutations4 : out = [i \in 1..4 |-> in[f[i]]]

C20_SortPermutesCorners ==
    (sort_pc \in {"sorted", "resorted"} /\ ConvexQuadrilateral(corner_points)) =>
        IsPermutationOf(ordered_rectangle, corner_points)

(***************************************************************************)
(* C18, as claimed: an OCR request that never returns is cut short and     *)
(* counts as a failure of the validator for that candidate: whenever       *)
(* validate_id_number_region waits on such a request it eventually raises, *)
(* which is what lets the loop go on to the next candidate and the scan    *)
(* reach a terminal state.                                                 *)
(***************************************************************************)
C18_OcrHangIsRecovered ==
    never_returns(first_request, second_request) ~> (val_pc = "raised")

(***************************************************************************)
(* Vocabulary of the claims about the confidence score: the four checks,   *)
(* as the specification words them.  A substring that is not made of       *)
(* decimal digits passes no check.                                         *)
(***************************************************************************)
Scored == score_pc \in {"scored", "rescored"}

AsciiDigitString(s) == \A k \in 1..Len(s) : s[k] \in AsciiDigits

ReadsWithin(s, from, low, high) ==
    /\ IsDecimal(s[from]) /\ IsDecimal(s[from + 1])
    /\ low <= 10 * DecimalValue(s[from]) + DecimalValue(s[from + 1])
    /\ 10 * DecimalValue(s[from]) + DecimalValue(s[from + 1]) <= high

CenturyCheck(s) == Len(s) >= 1 /\ s[1] \in {50, 51}
MonthCheck(s) == Len(s) >= 5 /\ ReadsWithin(s, 4, 1, 12)
DayCheck(s) == Len(s) >= 7 /\ ReadsWithin(s, 6, 1, 31)
GovernorateCheck(s) == Len(s) >= 9 /\ SubSeq(s, 8, 9) \in valid_governorate_codes

Checks(s) == <<CenturyCheck(s), MonthCheck(s), DayCheck(s), GovernorateCheck(s)>>

\* one check fails on s and passes on t, the other three fare alike
OneCheckFlipsToPassing(s, t) ==
    \E k \in 1..4 : /\ ~Checks(s)[k] /\ Checks(t)[k]
                     /\ \A j \in (1..4) \ {k} : Checks(s)[j] = Checks(t)[j]

(***************************************************************************)
(* C11: the confidence score is always within [0.0, 1.0], and it is        *)
(* monotonic: when one of the four checks goes from failing to passing and *)
(* the other three fare as before, the score does not decrease.            *)
(***************************************************************************)
C11_ScoreBoundedAndMonotonic ==
    /\ Scored => FloatLeq(Zero, confidence_score) /\ FloatLeq(confidence_score, One)
    /\ (score_pc = "rescored" /\ OneCheckFlipsToPassing(previous_id_number, id_number)) =>
           FloatLeq(previous_score, confidence_score)

\* the month goes from 13 to 12 on a string whose other checks pass: the
\* score goes from below 1.0 to 1.0
C11_Witness ==
    /\ score_pc = "rescored"
    /\ OneCheckFlipsToPassing(previous_id_number, id_number)
    /\ ~MonthCheck(previous_id_number)
    /\ Checks(id_number) = <<TRUE, TRUE, TRUE, TRUE>>
    /\ previous_score # One
    /\ confidence_score = One

(***************************************************************************)
(* C12, as claimed: for the empty string and for any string holding a      *)
(* character that is not a digit, the score is exactly 0.0.  A character   *)
(* counts as a digit here when it is a decimal digit of some script.       *)
(***************************************************************************)
C12_NonDigitScoresZero ==
    (Scored /\ (id_number = <<>> \/ \E k \in 1..Len(id_number) : ~IsDecimal(id_number[k]))) =>
        confidence_score = Zero

(***************************************************************************)
(* C13, as claimed: for a string of ASCII digits of length 7 or more whose *)
(* century digit is '2' or '3', whose month is in 01..12 and whose day is  *)
(* in 01..31, the score is at least 0.80.                                  *)
(***************************************************************************)
\* 0.80 is the double 0x1.999999999999Ap-1
PointEight == <<214748364, 214748368>>

C13_PlausibleDateScoresPointEight ==
    (/\ Scored
     /\ AsciiDigitString(id_number)
     /\ Len(id_number) >= 7
     /\ CenturyCheck(id_number) /\ MonthCheck(id_number) /\ DayCheck(id_number)) =>
        FloatLeq(PointEight, confidence_score)

(***************************************************************************)
(* C19, as claimed: for a string of ASCII digits the score is the sum of   *)
(* the weights of the checks it passes, each check asking only that the    *)
(* string is long enough to hold its own substring: 0.10 for the century   *)
(* (length 1), 0.35 for the month (length 5), 0.35 for the day (length 7), *)
(* 0.20 for the governorate code (length 9).                               *)
(***************************************************************************)
WeightIf(passes, weight) == IF passes THEN weight ELSE Zero

SumOfWeights(s) ==
    FloatAdd(FloatAdd(FloatAdd(WeightIf(CenturyCheck(s), CenturyWeight),
                               WeightIf(MonthCheck(s), MonthWeight)),
                      WeightIf(DayCheck(s), DayWeight)),
             WeightIf(GovernorateCheck(s), GovernorateWeight))

C19_ScoreIsSumOfWeights ==
    (Scored /\ AsciiDigitString(id_number)) => confidence_score = SumOfWeights(id_number)

(***************************************************************************)
(* C15: every normalized candidate image handed to the validator, and the  *)
(* final image scan_id_card returns, is 1000 pixels wide and 630 high, so  *)
(* the identifier crop window (rows 480..560, columns 400..1000) lies      *)
(* inside the image: the crop is the full 80 rows by 600 columns, never    *)
(* empty, never cut.                                                       *)
(***************************************************************************)
C15_FixedSizeHoldsCropWindow ==
    /\ size_pc \in {"resized", "cropped", "published"} =>
           /\ standardized_shape = <<630, 1000>>
           /\ 560 <= standardized_shape[1]
           /\ 1000 <= standardized_shape[2]
    /\ size_pc = "cropped" => id_region_shape = <<80, 600>>

\* a warped image 2 pixels wide and 1 high still gives the full crop
C15_Witness ==
    /\ size_pc = "cropped"
    /\ normalizing_for = "candidate"
    /\ warped_shape = <<1, 2>>
    /\ id_region_shape = <<80, 600>>

(***************************************************************************)
(* C21, as claimed: the loop examines the K largest contours at most, K    *)
(* being MAX_CONTOUR_CANDIDATES: every contour ranked within the first K   *)
(* by area that has 4 vertices is handed to normalization, unless an       *)
(* earlier one was accepted, and no contour ranked after K is examined.    *)
(***************************************************************************)
MAX_CONTOUR_CANDIDATES == 6

\* every contour of the image, largest first
RankedContours == SortByAreaDescending(image.contours)

AcceptedBefore(r) == \E q \in PassingRanks : q < r

C21_CapIsMaxContourCandidates ==
    LoopLeft =>
        /\ idx - 1 <= MAX_CONTOUR_CANDIDATES
        /\ \A r \in RanksIn(normalized) : r <= MAX_CONTOUR_CANDIDATES
        /\ \A r \in 1..Len(RankedContours) :
               (r <= MAX_CONTOUR_CANDIDATES /\ RankedContours[r].four /\ ~AcceptedBefore(r)) =>
                   /\ r \in RanksIn(normalized)
                   /\ largest_contours[r] = RankedContours[r]

(***************************************************************************)
(* C22, as claimed: with ordered corners TL, TR, BR, BL of non-negative    *)
(* integer coordinates, the output width is max(floor|BR-BL|,              *)
(* floor|TR-TL|) and the height max(floor|TR-BR|, floor|TL-BL|): each is   *)
(* more than the longest of its two edges minus 1 and not more than it,    *)
(* and is 1 at least when the quadrilateral is not degenerate.  It is      *)
(* stated here for the ordered corners of convex, non-degenerate           *)
(* quadrilaterals alone.                                                   *)
(***************************************************************************)
SquaredLength(a, b) == (a[1] - b[1]) * (a[1] - b[1]) + (a[2] - b[2]) * (a[2] - b[2])

\* floor of the Euclidean distance of a and b
FloorLength(a, b) == IntegerRoot(SquaredLength(a, b))

C22_OutputSizeIsFloorOfLongestEdge ==
    (warp_pc = "measured" /\ StrictlyConvexInOrder(ordered_corners)) =>
        LET TL == ordered_corners[1]
            TR == ordered_corners[2]
            BR == ordered_corners[3]
            BL == ordered_corners[4]
        IN  /\ output_size[1] = Max(FloorLength(BR, BL), FloorLength(TR, TL))
            /\ output_size[2] = Max(FloorLength(TR, BR), FloorLength(TL, BL))
            /\ output_size[1] * output_size[1]
                   <= Max(SquaredLength(BR, BL), SquaredLength(TR, TL))
            /\ output_size[2] * output_size[2]
                   <= Max(SquaredLength(TR, BR), SquaredLength(TL, BL))
            /\ output_size[1] >= 1
            /\ output_size[2] >= 1

(***************************************************************************)
(* C23: for each candidate the validator makes two OCR requests at most,   *)
(* in a fixed order: the digit-language request ("ara_number") first, the  *)
(* whitelist request ("ara+eng") only when the first one raised; when the  *)
(* first returns a text, be it empty, the second is not made; and no       *)
(* candidate is validated more than once in a scan.                        *)
(***************************************************************************)
\* the languages of the requests made for the candidate of rank r, in order
RequestsFor(r) ==
    LET IsFor(q) == q[1] = r
        made == SelectSeq(ocr_log, IsFor)
    IN  [k \in 1..Len(made) |-> made[k][2]]

EmptyTextNeedsNoFallback == OcrRequests(Returns(<<>>), Raises) = <<"ara_number">>

C23_TwoRequestsAtMostInOrder ==
    /\ EmptyTextNeedsNoFallback
    /\ \A r \in Ranks :
          LET c == largest_contours[r]
              langs == RequestsFor(r)
          IN  /\ langs \in {<<>>, <<"ara_number">>, <<"ara_number", "ara+eng">>}
              /\ Len(langs) = 2 <=> (langs # <<>> /\ c.first = "raise")
              /\ (r < idx /\ c.four /\ c.warps) => langs # <<>>
              /\ langs # <<>> => (r < idx /\ c.four /\ c.warps)

\* the first request raises for the first candidate, returns for the second
C23_Witness ==
    /\ pc = "after_loop"
    /\ ocr_log = << <<1, "ara_number">>, <<1, "ara+eng">>, <<2, "ara_number">> >>
    /\ largest_contours[1].second = "fail_text"
    /\ best_validated_contour = 2

(***************************************************************************)
(* C24: _safe_extract returns a dict with exactly the keys of              *)
(* DEFAULT_FIELDS whatever failed, and every value of it is None when an   *)
(* exception occurred in scan_id_card or in the extractor during the call. *)
(***************************************************************************)
C24_FailureReturnsAllNone ==
    invocation > 0 =>
        /\ DOMAIN fields = FieldKeys
        /\ exceptions # {} => fields = AllNone

(***************************************************************************)
(* C25: GET /api/result/s answers with exactly the payload that the upload *)
(* which returned session_id s returned, whatever uploads other sessions   *)
(* made since; for an identifier no completed upload returned it answers   *)
(* 404.                                                                    *)
(***************************************************************************)
C25_ResultIsWhatUploadReturned ==
    request.endpoint = "result" =>
        IF returned[request.session_id] = NoPayload
        THEN response.status = 404
        ELSE /\ response.status = 200
             /\ response.body = returned[request.session_id]

\* the result of the first session is asked for after another session uploaded
C25_Witness ==
    /\ request.endpoint = "result"
    /\ returned[request.session_id] # NoPayload
    /\ returned[request.session_id].created_at = 1
    /\ \E other \in SessionIds \ {request.session_id} :
          /\ returned[other] # NoPayload
          /\ returned[other].created_at = 2
    /\ response.status = 200
    /\ response.body.created_at = 1
    /\ response.body.session_id = request.session_id

(***************************************************************************)
(* C26: once the upload of a session has been processed, GET               *)
(* /api/temp/front (and /back) sent by that session answers with the       *)
(* processed card image of its own upload, also when another session's     *)
(* upload was processed in between.                                        *)
(***************************************************************************)
C26_TempImageIsOwn ==
    (/\ request.endpoint = "temp"
     /\ request.image_type \in CardSides
     /\ processed[request.client][request.image_type] # 0)
        => /\ response.status = 200
           /\ response.body = processed_image(processed[request.client][request.image_type])

(***************************************************************************)
(* C27: gen returns the "unknown" value for the empty string, for a string *)
(* of fewer than 13 characters and when the character at index 12 is       *)
(* neither an ASCII nor an Arabic-Indic digit; otherwise female for an     *)
(* even digit and male for an odd one, an Arabic-Indic digit counting as   *)
(* its ASCII equivalent.                                                   *)
(***************************************************************************)
C27_GenderFromThirteenthDigit ==
    gen_pc = "returned" =>
        gender = IF Len(id_str) < 13 \/ id_str[13] \notin AsciiDigits \cup ArabicIndic
                 THEN Unknown
                 ELSE IF (TranslateChar(id_str[13]) - 48) % 2 = 0 THEN Female ELSE Male

====
